---------------------------- MODULE Spec2Model ----------------------------
(***************************************************************************)
(* A model of the form layer of django-timepiece (src/timepiece/forms.py): *)
(* the time-entry forms (ClockInForm, ClockOutForm, AddUpdateEntryForm)    *)
(* with their checks against a user's open entries, and RepeatPeriodForm   *)
(* with its billing-window rollover.                                       *)
(*                                                                         *)
(* A form is bound to submitted data, validated (is_valid runs the clean   *)
(* methods) and, when valid, saved; no other request runs in between.      *)
(* An entry form is kept between its validation and its save, so that the  *)
(* verdict can be read against the entries it was reached on.              *)
(*                                                                         *)
(* Date/times and dates are integers.  None (an empty field, a NULL        *)
(* column, an unsaved instance's id) is the integer Null.                  *)
(***************************************************************************)
EXTENDS Integers, Sequences, FiniteSets

\* ------------------------------------------------------------------ bounds
MaxTime == 2          \* date/times of the entry forms are 0..MaxTime
MaxEntries == 2       \* rows of the Entry table
MaxDate == 3          \* submitted dates and "today" are 0..MaxDate
MaxWindows == 3       \* rows of the BillingWindow table
MaxPeriods == 1       \* rows of the RepeatPeriod table
MaxCount == 2         \* RepeatPeriod.count is 1..MaxCount

Null == -1

Users == {"u1", "u2"}
Times == 0..MaxTime
OptTimes == Times \cup {Null}

VARIABLES
    entries,      \* the Entry table: a set of rows [id, user, start_time, end_time]
    now,          \* datetime.now()
    entryForm,    \* the entry form of the request being handled
    periods,      \* the RepeatPeriod table: a set of rows [id, active, count, interval]
    windows,      \* the BillingWindow table, in creation order: [period, date, end_date]
    today,        \* datetime.date.today()
    periodForm    \* what the last RepeatPeriodForm request did

entryVars == <<entries, now, entryForm>>
periodVars == <<periods, windows, today, periodForm>>
vars == <<entries, now, entryForm, periods, windows, today, periodForm>>

\* ------------------------------------------------------------ entry forms

\* user.timepiece_entries.filter(..., end_time__isnull=True)
OpenEntries(user) == {e \in entries : e.user = user /\ e.end_time = Null}

NoEntryForm ==
    [form |-> "none", state |-> "idle", user |-> "u1", instance |-> Null,
     start_time |-> Null, end_time |-> Null, at |-> Null, error |-> "",
     saved |-> Null]

\* The form once saved: the request is over, the saved entry's id is kept.
SavedEntryForm(form, id) ==
    [NoEntryForm EXCEPT !.form = form, !.state = "saved", !.saved = id]

\* A request may bind a new form unless a valid form is still to be saved.
EntryFormFree == ~(entryForm.state = "validated" /\ entryForm.error = "")

\* ClockInForm.clean_start_time with start_time__gt for start_time__gte.
ClockInCleanStartTime_Gt(user, start) ==
    IF \E e \in OpenEntries(user) : e.start_time > start
    THEN "conflict"
    ELSE ""

\* ClockInForm.clean_start_time: "" when the start time is accepted.
ClockInCleanStartTime(user, start) ==
    IF \E e \in OpenEntries(user) : e.start_time >= start
    THEN "conflict"
    ELSE ""

\* AddUpdateEntryForm.clean without the second Q of the filter.
AddUpdateClean_EndOnly(user, start, end) ==
    IF start = Null \/ end = Null THEN "missing"
    ELSE IF start >= now \/ end > now THEN "future"
    ELSE IF \E e \in OpenEntries(user) : e.start_time <= end
         THEN "conflict"
    ELSE ""

\* AddUpdateEntryForm.clean: "" when the submission is accepted.
AddUpdateClean(user, start, end) ==
    IF start = Null \/ end = Null THEN "missing"
    ELSE IF start >= now \/ end > now THEN "future"
    ELSE IF \E e \in OpenEntries(user) :
                e.start_time <= end \/ e.start_time <= start
         THEN "conflict"
    ELSE ""

\* Entry.clean() as AddUpdateEntryForm.save calls it: the only rule on the
\* times of entries is the open-entry check of the forms, so an entry that
\* has its user passes.
EntryModelClean(entry) == entry.user \in Users

NextEntryId == Cardinality(entries) + 1

\* ClockInForm(data, user=user).is_valid() with a start time submitted.
ClockInValidate(user, start) ==
    /\ EntryFormFree
    /\ entryForm' = [form |-> "clockin", state |-> "validated", user |-> user,
                     instance |-> Null, start_time |-> start, end_time |-> Null,
                     at |-> now, error |-> ClockInCleanStartTime(user, start), saved |-> Null]
    /\ UNCHANGED <<entries, now, periodVars>>

\* ClockInForm.save: entry.clock_in(user, project) makes the entry an open
\* entry of user with the submitted start_time; entry.save() inserts it.
ClockInSave ==
    /\ entryForm.form = "clockin"
    /\ entryForm.state = "validated"
    /\ entryForm.error = ""
    /\ Cardinality(entries) < MaxEntries
    /\ entries' = entries \cup
           {[id |-> NextEntryId, user |-> entryForm.user,
             start_time |-> entryForm.start_time, end_time |-> Null]}
    /\ entryForm' = SavedEntryForm("clockin", NextEntryId)
    /\ UNCHANGED <<now, periodVars>>

\* AddUpdateEntryForm(data, user=user, instance=instance).is_valid();
\* instance is Null (a new Entry(user=user)) or the id of an entry of user.
AddUpdateValidate(user, instance, start, end) ==
    /\ EntryFormFree
    /\ instance = Null \/ \E e \in entries : e.id = instance /\ e.user = user
    /\ entryForm' = [form |-> "addupdate", state |-> "validated", user |-> user,
                     instance |-> instance, start_time |-> start, end_time |-> end,
                     at |-> now, error |-> AddUpdateClean(user, start, end), saved |-> Null]
    /\ UNCHANGED <<entries, now, periodVars>>

\* AddUpdateEntryForm.save: entry.user = self.user; instance.clean(); entry.save().
AddUpdateSave ==
    /\ entryForm.form = "addupdate"
    /\ entryForm.state = "validated"
    /\ entryForm.error = ""
    /\ LET id == IF entryForm.instance = Null THEN NextEntryId ELSE entryForm.instance
           entry == [id |-> id, user |-> entryForm.user,
                     start_time |-> entryForm.start_time,
                     end_time |-> entryForm.end_time]
       IN /\ entryForm.instance = Null => Cardinality(entries) < MaxEntries
          /\ EntryModelClean(entry)
          /\ entries' = {e \in entries : e.id # id} \cup {entry}
          /\ entryForm' = SavedEntryForm("addupdate", id)
    /\ UNCHANGED <<now, periodVars>>

\* ClockOutForm(data, instance=entry).is_valid(): start_time and end_time are
\* required fields and nothing else is checked; the instance is an open entry.
ClockOutValidate(instance, start, end) ==
    /\ EntryFormFree
    /\ \E e \in entries :
          /\ e.id = instance
          /\ e.end_time = Null
          /\ entryForm' = [form |-> "clockout", state |-> "validated",
                           user |-> e.user, instance |-> instance,
                           start_time |-> start, end_time |-> end,
                           at |-> now, error |-> "", saved |-> Null]
    /\ UNCHANGED <<entries, now, periodVars>>

\* ClockOutForm.save: entry.end_time = cleaned_data['end_time']; entry.save().
ClockOutSave ==
    /\ entryForm.form = "clockout"
    /\ entryForm.state = "validated"
    /\ entries' = {e \in entries : e.id # entryForm.instance} \cup
           {[id |-> entryForm.instance, user |-> entryForm.user,
             start_time |-> entryForm.start_time,
             end_time |-> entryForm.end_time]}
    /\ entryForm' = SavedEntryForm("clockout", entryForm.instance)
    /\ UNCHANGED <<now, periodVars>>

\* Time passes.
Tick ==
    /\ now < MaxTime
    /\ now' = now + 1
    /\ UNCHANGED <<entries, entryForm, periodVars>>

EntryInit ==
    /\ entries = {}
    /\ now = 1
    /\ entryForm = NoEntryForm

\* ------------------------------------------------------ RepeatPeriodForm

Dates == 0..MaxDate
OptDates == Dates \cup {Null}
Counts == 1..MaxCount
Intervals == {"day", "week"}

\* Days in one unit of RepeatPeriod.interval.
IntervalDays(interval) == IF interval = "week" THEN 7 ELSE 1

\* RepeatPeriod.delta(): relativedelta(**{interval + 's': count}), in days.
\* Defined when count and interval are set.
HasDelta(count, interval) == count # Null /\ interval # ""
Delta(count, interval) == count * IntervalDays(interval)

PeriodIds == {p.id : p \in periods}
Period(ps, id) == CHOOSE p \in ps : p.id = id
NextPeriodId == Cardinality(periods) + 1

\* period.billing_windows, in creation order.
BillingWindows(ws, id) == SelectSeq(ws, LAMBDA w : w.period = id)

\* period.billing_windows.latest(): the window with the greatest date (the
\* one created last among equals).
Latest(ws, id) ==
    LET mine == BillingWindows(ws, id)
    IN mine[CHOOSE i \in 1..Len(mine) :
               \A j \in 1..Len(mine) :
                  mine[j].date < mine[i].date \/ (mine[j].date = mine[i].date /\ j <= i)]

\* What the last RepeatPeriodForm request did: "rejected" (the form had
\* errors) or "saved".  Of the data of a saved form, instance, active and date
\* are kept; pk is the id of the period save returned (Null when it was not
\* persisted), created the windows the branches of save created and rolled
\* those update_billing_windows inserted.
NoPeriodForm ==
    [state |-> "idle", instance |-> Null, active |-> FALSE, date |-> Null,
     pk |-> Null, created |-> <<>>, rolled |-> <<>>]

\* RepeatPeriodForm._clean_optional: TRUE when it raises 'This field is required.'
CleanOptionalFails(active, blank) == active /\ blank

\* RepeatPeriodForm.clean_date: TRUE when it raises.
CleanDateFails(instance, active, date) ==
    active /\ instance = Null /\ date = Null

\* RepeatPeriodForm.clean: TRUE when it raises 'New start date must be after ...'
CleanFails(instance, active, date) ==
    /\ instance # Null /\ date # Null
    /\ BillingWindows(windows, instance) # <<>>
    /\ active /\ date < Latest(windows, instance).end_date

\* RepeatPeriodForm.clean: billing_windows.latest() raises DoesNotExist when
\* the period has no window.
CleanCrashes(instance, date) ==
    instance # Null /\ date # Null /\ BillingWindows(windows, instance) = <<>>

\* The errors of is_valid().
PeriodErrors(instance, active, count, interval, date) ==
    {x \in {"count"} : CleanOptionalFails(active, count = Null)} \cup
    {x \in {"interval"} : CleanOptionalFails(active, interval = "")} \cup
    {x \in {"date"} : CleanDateFails(instance, active, date)} \cup
    {x \in {"after"} : CleanFails(instance, active, date)} \cup
    {x \in {"DoesNotExist"} : CleanCrashes(instance, date)}

\* A request whose RepeatPeriodForm(data, instance=instance) is not valid;
\* instance is Null (a new period) or the id of a persisted period.  The form
\* is shown again with its errors and nothing is saved.
PeriodRejected(instance, active, count, interval, date) ==
    /\ instance = Null \/ instance \in PeriodIds
    /\ PeriodErrors(instance, active, count, interval, date) # {}
    /\ periodForm' = [NoPeriodForm EXCEPT !.state = "rejected"]
    /\ UNCHANGED <<periods, windows, today, entryVars>>

\* RepeatPeriodForm.save: period.save() is called for a persisted period and
\* for a new one that is active; every new period is saved.
SavesPeriod_Always(instance, active) == TRUE

\* RepeatPeriodForm.save: period.save() is called for a persisted period and
\* for a new one that is active.
SavesPeriod(instance, active) == instance # Null \/ active

\* The initial window of a new period, ending on its start date.
InitialWindow_NoDelta(pk, date, delta) ==
    [period |-> pk, date |-> date, end_date |-> date]

\* RepeatPeriodForm.save, new period: billing_windows.create(date, date + delta).
InitialWindow(pk, date, delta) ==
    [period |-> pk, date |-> date, end_date |-> date + delta]

\* The edit branch appending when start_date >= latest.end_date.
EditAppends_AtOrAfter(active, start_date, latest) ==
    active /\ start_date # Null /\ start_date >= latest.end_date

\* RepeatPeriodForm.save, persisted period: whether a window is appended.
EditAppends(active, start_date, latest) ==
    active /\ start_date # Null /\ start_date > latest.end_date

\* The appended window starting on the submitted start date.
AppendedWindow_FromStart(pk, latest, start_date, delta) ==
    [period |-> pk, date |-> start_date, end_date |-> start_date + delta]

\* The appended window ending one delta after the latest window's end.
AppendedWindow_FromLatestEnd(pk, latest, start_date, delta) ==
    [period |-> pk, date |-> latest.end_date, end_date |-> latest.end_date + delta]

\* RepeatPeriodForm.save, persisted period:
\* billing_windows.create(latest.end_date, start_date + delta).
AppendedWindow(pk, latest, start_date, delta) ==
    [period |-> pk, date |-> latest.end_date, end_date |-> start_date + delta]

\* The windows the branches of RepeatPeriodForm.save create, before
\* update_billing_windows: none or one.
Created(f, pk) ==
    IF f.instance = Null
    THEN IF f.active
         THEN <<InitialWindow(pk, f.date, Delta(f.count, f.interval))>>
         ELSE <<>>
    ELSE IF EditAppends(f.active, f.date, Latest(windows, pk))
         THEN <<AppendedWindow(pk, Latest(windows, pk), f.date,
                               Delta(f.count, f.interval))>>
         ELSE <<>>

\* The table after the branches of save, the latest window overwritten
\* instead of a new one created.
AfterBranches_Overwrite(f, pk) ==
    IF f.instance # Null /\ Created(f, pk) # <<>>
    THEN [i \in 1..Len(windows) |->
            IF windows[i] = Latest(windows, pk) THEN Created(f, pk)[1] ELSE windows[i]]
    ELSE windows \o Created(f, pk)

\* The BillingWindow table after the branches of RepeatPeriodForm.save.
AfterBranches(f, pk) == windows \o Created(f, pk)

\* RepeatPeriod.update_billing_windows: from the latest window on, while the
\* window's date plus delta is not after the boundary, a new window is
\* inserted that starts where the previous one ends and ends one delta after
\* the previous one's end.  n bounds the number of windows.
RECURSIVE RollFrom(_, _, _, _)
RollFrom(w, delta, boundary, n) ==
    IF n > 0 /\ w.date + delta <= boundary
    THEN LET next == [period |-> w.period,
                      date |-> IF w.date + delta = w.end_date
                               THEN w.date + delta
                               ELSE w.end_date,
                      end_date |-> w.end_date + delta]
         IN <<next>> \o RollFrom(next, delta, boundary, n - 1)
    ELSE <<>>

\* period.update_billing_windows() with date_boundary = today.  It needs a
\* window to start from and the period's delta.
UpdateBillingWindows(ws, pk, count, interval) ==
    IF pk = Null \/ BillingWindows(ws, pk) = <<>> \/ ~HasDelta(count, interval)
    THEN <<>>
    ELSE RollFrom(Latest(ws, pk), Delta(count, interval), today, MaxWindows + 1)

\* A request whose RepeatPeriodForm(data, instance=instance) is valid:
\* is_valid() and then RepeatPeriodForm.save.
PeriodSaved(instance, active, count, interval, date) ==
    /\ instance = Null \/ instance \in PeriodIds
    /\ PeriodErrors(instance, active, count, interval, date) = {}
    /\ LET f == [instance |-> instance, active |-> active, count |-> count,
                 interval |-> interval, date |-> date]
           saves == SavesPeriod(instance, active)
           pk == IF instance # Null THEN instance
                 ELSE IF saves THEN NextPeriodId ELSE Null
           row == [id |-> pk, active |-> active, count |-> count,
                   interval |-> interval]
           branches == AfterBranches(f, pk)
           rolled == UpdateBillingWindows(branches, pk, count, interval)
       IN /\ (instance = Null /\ saves) => Cardinality(periods) < MaxPeriods
          /\ Len(branches) + Len(rolled) <= MaxWindows
          /\ periods' = IF saves
                        THEN {p \in periods : p.id # pk} \cup {row}
                        ELSE periods
          /\ windows' = branches \o rolled
          /\ periodForm' =
                [NoPeriodForm EXCEPT
                    !.state = "saved",
                    !.instance = instance, !.active = active, !.date = date,
                    !.pk = pk, !.created = Created(f, pk), !.rolled = rolled]
    /\ UNCHANGED <<today, entryVars>>

\* A day passes.
TickDay ==
    /\ today < MaxDate
    /\ today' = today + 1
    /\ UNCHANGED <<periods, windows, periodForm, entryVars>>

PeriodInit ==
    /\ periods = {}
    /\ windows = <<>>
    /\ today = 0
    /\ periodForm = NoPeriodForm

Init == EntryInit /\ PeriodInit

EntryNext ==
    \/ \E u \in Users, s \in Times : ClockInValidate(u, s)
    \/ ClockInSave
    \/ \E u \in Users, i \in {Null} \cup (1..MaxEntries), s \in OptTimes, e \in OptTimes :
          AddUpdateValidate(u, i, s, e)
    \/ AddUpdateSave
    \/ \E i \in 1..MaxEntries, s \in Times, e \in Times : ClockOutValidate(i, s, e)
    \/ ClockOutSave
    \/ Tick

PeriodNext ==
    \/ \E i \in {Null} \cup (1..MaxPeriods), a \in BOOLEAN, c \in Counts \cup {Null},
          v \in Intervals \cup {""}, d \in OptDates :
          \/ PeriodRejected(i, a, c, v, d)
          \/ PeriodSaved(i, a, c, v, d)
    \/ TickDay

EntrySpec == Init /\ [][EntryNext]_vars

PeriodSpec == Init /\ [][PeriodNext]_vars

\* ------------------------------------------------------- entry-form claims

Max(a, b) == IF a >= b THEN a ELSE b

\* The entry the form saved.
SavedEntry == CHOOSE e \in entries : e.id = entryForm.saved

\* An open entry extends from its start_time onwards: it overlaps x when x is
\* open too or when it starts before x ends.
OpenOverlapping(x) ==
    {e \in OpenEntries(x.user) : x.end_time = Null \/ e.start_time < x.end_time}

\* C1: once an accepted clock-in or add/edit is saved, the user has at most
\* one open entry overlapping the time range of the entry just saved.
C1_AtMostOneOpenOverlap ==
    (entryForm.state = "saved" /\ entryForm.form \in {"clockin", "addupdate"})
        => Cardinality(OpenOverlapping(SavedEntry)) <= 1

AddUpdateValidated == entryForm.form = "addupdate" /\ entryForm.state = "validated"

\* C2 (as stated): with start and end present and neither after the time of validation, the
\* add/update validation rejects exactly when an open entry of the same user
\* starts at or before the candidate's end, whatever the order of start and end.
C2_RejectIffOpenBeforeEnd ==
    (/\ AddUpdateValidated
     /\ entryForm.start_time # Null /\ entryForm.end_time # Null
     /\ entryForm.start_time <= entryForm.at /\ entryForm.end_time <= entryForm.at)
        => (entryForm.error # "" <=>
               \E e \in entries : /\ e.user = entryForm.user
                                  /\ e.end_time = Null
                                  /\ e.start_time <= entryForm.end_time)

\* C2 (amended): with start strictly before the time of validation and end not after it, the
\* add/update validation rejects exactly when an open entry of the same user
\* starts at or before the later of the candidate's start and end; entries of
\* other users never cause a rejection.
C2_RejectIffOpenBeforeLater ==
    (/\ AddUpdateValidated
     /\ entryForm.start_time # Null /\ entryForm.end_time # Null
     /\ entryForm.start_time < entryForm.at /\ entryForm.end_time <= entryForm.at)
        => (entryForm.error # "" <=>
               \E e \in entries :
                  /\ e.user = entryForm.user
                  /\ e.end_time = Null
                  /\ e.start_time <= Max(entryForm.start_time, entryForm.end_time))

\* A candidate with start after end is rejected for an open entry of its user
\* that starts after the candidate's end, while another user has an open
\* entry too.
C2_Witness ==
    /\ AddUpdateValidated
    /\ entryForm.start_time # Null /\ entryForm.end_time # Null
    /\ entryForm.start_time < entryForm.at /\ entryForm.end_time < entryForm.start_time
    /\ entryForm.error = "conflict"
    /\ \A e \in OpenEntries(entryForm.user) : e.start_time > entryForm.end_time
    /\ \E e \in entries : e.user # entryForm.user /\ e.end_time = Null

ClockInValidated == entryForm.form = "clockin" /\ entryForm.state = "validated"

\* C7: the clock-in validation rejects the submitted start exactly when the
\* user has an open entry whose start_time is at or after it; an accepted
\* start is strictly later than the start of every open entry of the user.
C7_ClockInRejectIffOpenAtOrAfter ==
    ClockInValidated =>
        /\ entryForm.error # "" <=>
               \E e \in entries : /\ e.user = entryForm.user
                                  /\ e.end_time = Null
                                  /\ e.start_time >= entryForm.start_time
        /\ entryForm.error = "" =>
               \A e \in entries :
                  (e.user = entryForm.user /\ e.end_time = Null)
                      => e.start_time < entryForm.start_time

\* A clock-in is accepted while the user has an open entry.
C7_Witness ==
    /\ ClockInValidated
    /\ entryForm.error = ""
    /\ OpenEntries(entryForm.user) # {}

\* ------------------------------------------------- RepeatPeriodForm claims

\* A step that is a request whose form was valid and saved: periodForm' tells
\* what it did, the unprimed variables what it found.
SavedStep == today' = today /\ periodForm'.state = "saved"

\* The windows of a period created before the i-th row of the table ws.
Before(ws, i) == BillingWindows(SubSeq(ws, 1, i - 1), ws[i].period)

LastOf(seq) == seq[Len(seq)]

\* The delta of the period with this id, as persisted in ps.
DeltaOf(ps, id) == Delta(Period(ps, id).count, Period(ps, id).interval)

\* C3 (as stated): every window created after the first of its period ends
\* one delta of the period after the end of the window created just before it.
C3_EndIsPreviousEndPlusDelta ==
    [][\A i \in (Len(windows) + 1)..Len(windows') :
          Before(windows', i) # <<>> =>
             windows'[i].end_date =
                LastOf(Before(windows', i)).end_date
                   + DeltaOf(periods', windows'[i].period)]_vars

\* C3 (amended): a window that update_billing_windows inserts ends one delta
\* of the period after the end of the window created just before it; the
\* window the edit branch of save appends ends one delta after the submitted
\* start date, which is strictly later.
C3_EndIsPreviousEndOrStartPlusDelta ==
    [][\A i \in (Len(windows) + 1)..Len(windows') :
          Before(windows', i) # <<>> =>
             LET prev == LastOf(Before(windows', i))
                 delta == DeltaOf(periods', windows'[i].period)
             IN IF i = Len(windows) + 1 /\ periodForm'.created # <<>>
                THEN /\ windows'[i].end_date = periodForm'.date + delta
                     /\ windows'[i].end_date > prev.end_date + delta
                ELSE windows'[i].end_date = prev.end_date + delta]_vars

\* One save of a persisted period appended a window and rolled another.
C3_Witness ==
    /\ periodForm.state = "saved"
    /\ periodForm.instance # Null
    /\ periodForm.created # <<>>
    /\ periodForm.rolled # <<>>

\* C4: a save leaves every existing window as it was (the table before is a
\* prefix of the table after) and the branches of save add at most one window,
\* placed right after the existing ones.
C4_WindowsOnlyAppended ==
    [][/\ Len(windows) <= Len(windows')
       /\ SubSeq(windows', 1, Len(windows)) = windows
       /\ SavedStep =>
            /\ Len(periodForm'.created) <= 1
            /\ windows' = windows \o periodForm'.created \o periodForm'.rolled]_vars

\* A save added a window to a table that already held windows.
C4_Witness ==
    /\ periodForm.state = "saved"
    /\ Len(periodForm.created) = 1
    /\ Len(windows) > Len(periodForm.created) + Len(periodForm.rolled)

C8_AcceptedStartIsAfterLatestEnd ==
    [][(/\ SavedStep
        /\ periodForm'.instance # Null
        /\ periodForm'.active
        /\ periodForm'.date # Null
        /\ BillingWindows(windows, periodForm'.instance) # <<>>) =>
          /\ periodForm'.date > Latest(windows, periodForm'.instance).end_date
          /\ periodForm'.created # <<>>]_vars

\* C9: every persisted period has at least one billing window, and a new
\* period submitted as inactive is not persisted.
C9_PersistedPeriodHasWindow ==
    /\ \A p \in periods : BillingWindows(windows, p.id) # <<>>
    /\ (/\ periodForm.state = "saved"
        /\ periodForm.instance = Null
        /\ ~periodForm.active) => periodForm.pk = Null

\* A new period submitted as inactive was not persisted, beside a persisted
\* period that an edit has made inactive.
C9_Witness ==
    /\ periodForm.state = "saved"
    /\ periodForm.instance = Null
    /\ ~periodForm.active
    /\ periodForm.pk = Null
    /\ \E p \in periods : ~p.active

\* C10: the windows of a period, in creation order, form a chain: each starts
\* strictly before it ends, starts where the previous one ends, and ends
\* strictly after the previous one ends.
C10_WindowsFormChain ==
    \A p \in periods :
       LET ws == BillingWindows(windows, p.id)
       IN \A i \in 1..Len(ws) :
             /\ ws[i].date < ws[i].end_date
             /\ i > 1 => /\ ws[i].date = ws[i - 1].end_date
                         /\ ws[i].end_date > ws[i - 1].end_date

\* A period has a chain of three windows, the second appended by an edit
\* (it is longer than the delta that rolled the third).
C10_Witness ==
    \E p \in periods :
       LET ws == BillingWindows(windows, p.id)
       IN /\ Len(ws) >= 3
          /\ periodForm.rolled # <<>>
          /\ ws[2].end_date - ws[2].date > ws[3].end_date - ws[3].date

=============================================================================
